---- MODULE Spec2Model ----
(***************************************************************************)
(* A model of evaluate.py: audio-metric derivation, the composite quality  *)
(* score, per-sample evaluation with two transcription backends, report    *)
(* generation and the merge of a run with the persisted report.            *)
(*                                                                         *)
(* Units.  Levels in dB are integers in tenths of a dB (ffmpeg prints one  *)
(* decimal).  clipping_ratio is the numerator of a fraction over 3000,     *)
(* silence_ratio the numerator of a fraction over 600.  Scores are         *)
(* integers in thousandths of a point (100 points = 100000).  A WER is an  *)
(* integer in units of 0.00001, a wer_percent in units of 0.01 percent.    *)
(* An Optional value is a sequence: <<>> is None, <<v>> is the value v.    *)
(* A dict key that may be missing (microphone["category"]) is an Optional  *)
(* too.                                                                    *)
(***************************************************************************)
EXTENDS Integers, Sequences, FiniteSets, TLC

\* The number of samples of the metadata and of runs of main() in a behaviour.
MaxId == 2
MaxRuns == 2

VARIABLES
    results_file,               \* RESULTS_FILE: <<>> when absent, <<report>> otherwise
    metadata,                   \* metadata["samples"], in file order
    pc,                         \* the position of main()
    error,                      \* the exception that ended the run, "" when none
    args,                       \* the parsed command line: samples (Optional set), merge
    api_key,                    \* OPENAI_API_KEY is set
    samples_to_evaluate,
    existing_report,            \* Optional: the report json.load returned
    existing_detailed_results,
    evaluations,
    fresh,                      \* the evaluations as the sample loop left them
    idx,                        \* the loop index into samples_to_evaluate
    audio_metrics,              \* Optional: evaluate_sample's local
    audio_quality_score,        \* Optional: evaluate_sample's local
    transcriptions,             \* evaluate_sample's local
    report,                     \* Optional: generate_report's result
    runs,                       \* runs of main() started so far
    probe_data,                 \* Optional: what ffprobe and ffmpeg report for the file
    local_text,                 \* the text a backend returned, a sequence of characters
    normalized_local            \* Optional: normalize_text(local_text)

vars == <<results_file, metadata, pc, error, args, api_key, samples_to_evaluate,
          existing_report, existing_detailed_results, evaluations, fresh, idx,
          audio_metrics, audio_quality_score, transcriptions, report, runs,
          probe_data, local_text, normalized_local>>

-----------------------------------------------------------------------------
\* Python helpers

None == <<>>
Some(v) == <<v>>

\* The truth value Python gives an Optional number: None and 0 are false.
Truthy(o) == o # None /\ o[1] # 0

Min(a, b) == IF a < b THEN a ELSE b
Max(a, b) == IF a > b THEN a ELSE b
Abs(a) == IF a < 0 THEN -a ELSE a

\* round(x, n) on a value held as an integer count of a finer unit: the nearest
\* multiple of unit, an exact tie going to the even multiple.
Round(x, unit) ==
    LET q == x \div unit
        r == x % unit
    IN  IF 2 * r < unit THEN q * unit
        ELSE IF 2 * r > unit THEN (q + 1) * unit
        ELSE IF q % 2 = 0 THEN q * unit ELSE (q + 1) * unit

\* round(score, 1): thousandths of a point to a multiple of a tenth.
Round1(x) == Round(x, 100)

\* round(wer * 100, 2): units of 0.00001 to units of 0.01 percent.
WerPercent(w) == Round(w, 10) \div 10

RECURSIVE SeqSum(_)
SeqSum(s) == IF s = <<>> THEN 0 ELSE s[1] + SeqSum(Tail(s))

\* sorted(s, key=..., reverse=desc), keys[i] being the key of s[i]: Python's sort
\* is stable, and with reverse=True equal keys still keep their input order.
SortedPos(keys, i, desc) ==
    1 + Cardinality({j \in 1..Len(keys) :
            \/ (IF desc THEN keys[j] > keys[i] ELSE keys[j] < keys[i])
            \/ (keys[j] = keys[i] /\ j < i)})

Sorted(s, keys, desc) ==
    [p \in 1..Len(s) |-> s[CHOOSE i \in 1..Len(s) : SortedPos(keys, i, desc) = p]]

-----------------------------------------------------------------------------
\* analyze_audio_metrics

\* What the three ffprobe/ffmpeg collaborators returned for a file: the audio
\* stream of probe_data (None when there is none), levels, and the noise floor.
analyze_audio_metrics(probe) ==
    LET audio_stream == probe.audio_stream
        sample_rate == IF audio_stream # None THEN audio_stream[1].sample_rate ELSE 0
        bits == IF audio_stream # None THEN audio_stream[1].bits_per_sample ELSE None
        bit_depth == IF Truthy(bits) THEN bits ELSE None
        peak_db == IF probe.levels.peak_db # None THEN probe.levels.peak_db[1] ELSE 0
        mean_db == IF probe.levels.mean_db # None THEN probe.levels.mean_db[1] ELSE -200
        noise_floor == probe.noise_floor
        has_floor == noise_floor # 0
    IN  [ sample_rate |-> sample_rate,
          bit_depth |-> bit_depth,
          peak_amplitude_db |-> peak_db,
          rms_level_db |-> mean_db,
          estimated_snr_db |-> IF has_floor THEN Some(mean_db - noise_floor) ELSE None,
          dynamic_range_db |-> IF has_floor THEN Abs(peak_db - noise_floor)
                                            ELSE Abs(peak_db - mean_db),
          silence_ratio |-> IF has_floor THEN Max(0, Min(600, noise_floor + 600)) ELSE 60,
          clipping_ratio |-> IF peak_db > -30
                             THEN Max(0, Min(3000, 100 * (peak_db + 10))) ELSE 0 ]

-----------------------------------------------------------------------------
\* calculate_audio_quality_score, in thousandths of a point

SampleRateScore(metrics) ==
    IF metrics.sample_rate >= 48000 THEN 15000
    ELSE IF metrics.sample_rate >= 44100 THEN 12000
    ELSE IF metrics.sample_rate >= 22050 THEN 8000
    ELSE 5000

BitDepthScore(metrics) ==
    IF Truthy(metrics.bit_depth)
    THEN IF metrics.bit_depth[1] >= 24 THEN 10000
         ELSE IF metrics.bit_depth[1] >= 16 THEN 8000
         ELSE 5000
    ELSE 6000

SnrScore(metrics) ==
    IF Truthy(metrics.estimated_snr_db)
    THEN LET snr == metrics.estimated_snr_db[1]
         IN  IF snr >= 400 THEN 25000
             ELSE IF snr >= 300 THEN 20000
             ELSE IF snr >= 200 THEN 15000
             ELSE IF snr >= 100 THEN 10000
             ELSE 5000
    ELSE 12000

RmsScore(metrics) ==
    LET rms == metrics.rms_level_db
    IN  IF -200 <= rms /\ rms <= -100 THEN 20000
        ELSE IF -250 <= rms /\ rms <= -80 THEN 15000
        ELSE IF -300 <= rms /\ rms <= -60 THEN 10000
        ELSE 5000

\* 15 * (1 - clipping_ratio), the ratio being clipping_ratio / 3000
ClippingScore(metrics) == 5 * (3000 - metrics.clipping_ratio)

DynamicRangeScore(metrics) ==
    LET dr == metrics.dynamic_range_db
    IN  IF 300 <= dr /\ dr <= 600 THEN 15000
        ELSE IF 200 <= dr /\ dr <= 700 THEN 12000
        ELSE IF 150 <= dr /\ dr <= 800 THEN 8000
        ELSE 5000

calculate_audio_quality_score_Unclamped(metrics) ==
    SampleRateScore(metrics) + BitDepthScore(metrics) + SnrScore(metrics)
        + RmsScore(metrics) + 15000 - 500 * metrics.clipping_ratio
        + DynamicRangeScore(metrics)

calculate_audio_quality_score(metrics) ==
    Min(100000, Max(0,
        SampleRateScore(metrics) + BitDepthScore(metrics) + SnrScore(metrics)
            + RmsScore(metrics) + ClippingScore(metrics) + DynamicRangeScore(metrics)))

-----------------------------------------------------------------------------
\* The SampleEvaluation evaluate_sample returns for a sample of the metadata.
SampleEvaluation(sample, metrics, results, score) ==
    [ sample_id |-> sample.id,
      microphone |-> sample.microphone,
      audio_metrics |-> metrics,
      transcriptions |-> results,
      audio_quality_score |-> score ]

-----------------------------------------------------------------------------
\* generate_report

LOCAL_SERVICE == "local_whisper_large_v3_turbo"
OPENAI_SERVICE == "openai_whisper_1"

\* any(t.service == service for t in e.transcriptions)
HasService(e, service) ==
    \E i \in 1..Len(e.transcriptions) : e.transcriptions[i].service = service

\* next(t.wer for t in e.transcriptions if t.service == service)
WerOf(e, service) ==
    LET first == CHOOSE i \in 1..Len(e.transcriptions) :
                    /\ e.transcriptions[i].service = service
                    /\ \A j \in 1..(i - 1) : e.transcriptions[j].service # service
    IN  e.transcriptions[first].wer

\* microphone.get("category", default) and microphone.get("category")
MicGet(microphone, default) ==
    IF microphone.category = None THEN default ELSE microphone.category[1]

by_quality(evals) ==
    Sorted(evals, [i \in 1..Len(evals) |-> evals[i].audio_quality_score], TRUE)

ByWer_Descending(evals, service) ==
    LET with == SelectSeq(evals, LAMBDA e : HasService(e, service))
    IN  Sorted(with, [i \in 1..Len(with) |-> WerOf(with[i], service)], TRUE)

\* by_local_wer and by_openai_wer
ByWer(evals, service) ==
    LET with == SelectSeq(evals, LAMBDA e : HasService(e, service))
    IN  Sorted(with, [i \in 1..Len(with) |-> WerOf(with[i], service)], FALSE)

\* The keys of the categories dict, in insertion order.
RECURSIVE CategoryKeys(_)
CategoryKeys(evals) ==
    IF evals = <<>> THEN <<>>
    ELSE LET before == CategoryKeys(SubSeq(evals, 1, Len(evals) - 1))
             cat == MicGet(evals[Len(evals)].microphone, "unknown")
         IN  IF \E i \in 1..Len(before) : before[i] = cat THEN before
             ELSE Append(before, cat)

\* cat_evals of the second loop: the lookup there has no default.
CatEvals(evals, cat) ==
    SelectSeq(evals, LAMBDA e : e.microphone.category = Some(cat))

\* The division by len(cat_evals) raises ZeroDivisionError.
ReportRaises(evals) ==
    \E i \in 1..Len(CategoryKeys(evals)) : CatEvals(evals, CategoryKeys(evals)[i]) = <<>>

\* One value of the categories dict; a mean is kept as the fraction sum / count.
CategoryEntry(evals, cat) ==
    LET members == SelectSeq(evals, LAMBDA e : MicGet(e.microphone, "unknown") = cat)
        cat_evals == CatEvals(evals, cat)
        with == SelectSeq(cat_evals, LAMBDA e : HasService(e, LOCAL_SERVICE))
        wers == [i \in 1..Len(with) |-> WerOf(with[i], LOCAL_SERVICE)]
    IN  [ category |-> cat,
          samples |-> [i \in 1..Len(members) |-> members[i].sample_id],
          avg_quality |->
              [ sum |-> SeqSum([i \in 1..Len(cat_evals) |-> cat_evals[i].audio_quality_score]),
                count |-> Len(cat_evals) ],
          avg_wer |-> IF wers # <<>>
                      THEN Some([sum |-> SeqSum(wers), count |-> Len(wers)])
                      ELSE None ]

QualityRanking(evals) ==
    LET q == by_quality(evals)
    IN  [i \in 1..Len(q) |->
            [ rank |-> i,
              sample_id |-> q[i].sample_id,
              category |-> q[i].microphone.category,
              score |-> Round1(q[i].audio_quality_score) ]]

WerRanking(evals, service) ==
    LET w == ByWer(evals, service)
    IN  [i \in 1..Len(w) |->
            [ rank |-> i,
              sample_id |-> w[i].sample_id,
              wer_percent |-> WerPercent(WerOf(w[i], service)) ]]

Rankings_AlwaysOpenAI(evals) ==
    [ k \in {"by_audio_quality", "by_local_whisper_wer", "by_openai_whisper_wer"} |->
        IF k = "by_audio_quality" THEN QualityRanking(evals)
        ELSE IF k = "by_local_whisper_wer" THEN WerRanking(evals, LOCAL_SERVICE)
        ELSE WerRanking(evals, OPENAI_SERVICE) ]

\* report["rankings"]: a dict whose keys are the sections present.
Rankings(evals) ==
    [ k \in {"by_audio_quality", "by_local_whisper_wer"}
            \cup (IF ByWer(evals, OPENAI_SERVICE) # <<>>
                  THEN {"by_openai_whisper_wer"} ELSE {}) |->
        IF k = "by_audio_quality" THEN QualityRanking(evals)
        ELSE IF k = "by_local_whisper_wer" THEN WerRanking(evals, LOCAL_SERVICE)
        ELSE WerRanking(evals, OPENAI_SERVICE) ]

\* One entry of detailed_results.
DetailedResult(e) ==
    [ sample_id |-> e.sample_id,
      microphone |-> e.microphone,
      audio_metrics |-> e.audio_metrics,
      audio_quality_score |-> Round1(e.audio_quality_score),
      transcriptions |-> e.transcriptions ]

\* The report generate_report returns when it does not raise.
generate_report(evals, key) ==
    LET keys == CategoryKeys(evals)
    IN  [ summary |-> [ total_samples |-> Len(evals), openai_api_available |-> key ],
          rankings |-> Rankings(evals),
          category_analysis |-> [i \in 1..Len(keys) |-> CategoryEntry(evals, keys[i])],
          detailed_results |-> [i \in 1..Len(evals) |-> DetailedResult(evals[i])] ]

-----------------------------------------------------------------------------
\* main: the merge with the persisted report

\* existing_report.get("detailed_results", [])
DetailedResultsOf(doc) ==
    IF "detailed_results" \in DOMAIN doc THEN doc.detailed_results ELSE <<>>

ExistingDetailedResults_Unfiltered(a, existing) ==
    IF existing = None THEN <<>> ELSE DetailedResultsOf(existing[1])

\* existing_detailed_results as the block "Load existing results if merging"
\* leaves it, existing being the report loaded (None when none was).
ExistingDetailedResults(a, existing) ==
    IF existing = None THEN <<>>
    ELSE IF a.samples # None
         THEN SelectSeq(DetailedResultsOf(existing[1]),
                        LAMBDA r : r.sample_id \notin a.samples[1])
         ELSE DetailedResultsOf(existing[1])

\* The keys the rebuilding of a SampleEvaluation reads from a persisted entry.
UsableEntry(result) ==
    {"sample_id", "microphone", "audio_metrics", "transcriptions",
     "audio_quality_score"} \subseteq DOMAIN result

\* SampleEvaluation(...) rebuilt from one persisted entry.
ExistingEval(result) ==
    [ sample_id |-> result.sample_id,
      microphone |-> result.microphone,
      audio_metrics |-> result.audio_metrics,
      transcriptions |-> result.transcriptions,
      audio_quality_score |-> result.audio_quality_score ]

\* evaluations after the block "Convert existing results ... for merging".
MergeEvaluations(a, evals, existing) ==
    IF a.merge /\ existing # <<>>
    THEN LET all == evals \o [i \in 1..Len(existing) |-> ExistingEval(existing[i])]
         IN  Sorted(all, [i \in 1..Len(all) |-> all[i].sample_id], FALSE)
    ELSE evals

-----------------------------------------------------------------------------
\* The environment of a run

Ids == 1..MaxId

\* microphone["category"] as metadata.json may give it: missing, or a string.
Categories == {None, Some("usb")}

\* metadata["samples"]: the samples 1..MaxId in any file order.
MetadataChoices ==
    { m \in [Ids -> [id : Ids, microphone : [category : Categories]]] :
        \A i, j \in Ids : i # j => m[i].id # m[j].id }

\* What ffprobe and ffmpeg report for a file that can be probed.
ProbeResults ==
    { [ audio_stream |-> Some([sample_rate |-> 48000, bits_per_sample |-> Some(24)]),
        levels |-> [peak_db |-> Some(-10), mean_db |-> Some(-150)],
        noise_floor |-> -570 ],
      [ audio_stream |-> Some([sample_rate |-> 44100, bits_per_sample |-> Some(0)]),
        levels |-> [peak_db |-> Some(0), mean_db |-> Some(-280)],
        noise_floor |-> -400 ] }

\* The WER jiwer computes for a transcript the local backend returned, and for one
\* the cloud backend returned, in a run of main().
LocalWerValues == {12504}
OpenAIWerValues == {8333}

CommandLines ==
    [ samples : {None} \cup { Some(T) : T \in (SUBSET Ids) \ {{}} }, merge : BOOLEAN ]

NoArgs == [samples |-> None, merge |-> FALSE]

\* The content of a results file whose text is not JSON: json.load raises.
InvalidJson == [JSONDecodeError |-> TRUE]

\* json.load(f) of the results file returns, when the run loads it at all.
LoadsExisting(a) == ~(a.merge /\ results_file = Some(InvalidJson))

\* The locals of main() and evaluate_sample() before a run.
NotRunning ==
    /\ pc = "idle"
    /\ error = ""
    /\ args = NoArgs
    /\ api_key = FALSE
    /\ samples_to_evaluate = <<>>
    /\ existing_report = None
    /\ existing_detailed_results = <<>>
    /\ evaluations = <<>>
    /\ fresh = <<>>
    /\ idx = 0
    /\ audio_metrics = None
    /\ audio_quality_score = None
    /\ transcriptions = <<>>
    /\ report = None
    /\ probe_data = None
    /\ local_text = <<>>
    /\ normalized_local = None

Init ==
    /\ results_file = None
    /\ metadata \in MetadataChoices
    /\ runs = 0
    /\ NotRunning

-----------------------------------------------------------------------------
\* main() up to the sample loop

StartRun(a, key) ==
    /\ pc = "idle"
    /\ runs < MaxRuns
    /\ LoadsExisting(a)
    /\ runs' = runs + 1
    /\ args' = a
    /\ api_key' = key
    /\ samples_to_evaluate' =
          IF a.samples # None
          THEN SelectSeq(metadata, LAMBDA s : s.id \in a.samples[1])
          ELSE metadata
    /\ existing_report' = IF a.merge /\ results_file # None THEN results_file ELSE None
    /\ existing_detailed_results' = ExistingDetailedResults(a, existing_report')
    /\ evaluations' = <<>>
    /\ idx' = 1
    /\ pc' = "loop"
    /\ UNCHANGED <<probe_data, local_text, normalized_local,
                   results_file, metadata, error, fresh, audio_metrics,
                   audio_quality_score, transcriptions, report>>

InLoop == pc = "loop" /\ idx <= Len(samples_to_evaluate)

\* filepath.exists() is false: the sample is skipped.
SkipMissingFile ==
    /\ InLoop
    /\ idx' = idx + 1
    /\ UNCHANGED <<probe_data, local_text, normalized_local,
                   results_file, metadata, pc, error, args, api_key, samples_to_evaluate,
                   existing_report, existing_detailed_results, evaluations, fresh,
                   audio_metrics, audio_quality_score, transcriptions, report, runs>>

-----------------------------------------------------------------------------
\* evaluate_sample

AnalyzeMetrics(probe) ==
    /\ InLoop
    /\ audio_metrics' = Some(analyze_audio_metrics(probe))
    /\ audio_quality_score' = Some(calculate_audio_quality_score(audio_metrics'[1]))
    /\ transcriptions' = <<>>
    /\ pc' = "local"
    /\ UNCHANGED <<probe_data, local_text, normalized_local,
                   results_file, metadata, error, args, api_key, samples_to_evaluate,
                   existing_report, existing_detailed_results, evaluations, fresh, idx,
                   report, runs>>

\* The exception ends the run after the results file was opened for writing.
Abort_FileTruncated(exception) ==
    /\ pc' = "aborted"
    /\ error' = exception
    /\ results_file' = None
    /\ UNCHANGED <<metadata, args, api_key, samples_to_evaluate,
                   existing_report, existing_detailed_results, evaluations, fresh, idx,
                   audio_metrics, audio_quality_score, transcriptions, report, runs,
                   probe_data, local_text, normalized_local>>

Abort(exception) ==
    /\ pc' = "aborted"
    /\ error' = exception
    /\ UNCHANGED <<probe_data, local_text, normalized_local,
                   results_file, metadata, args, api_key, samples_to_evaluate,
                   existing_report, existing_detailed_results, evaluations, fresh, idx,
                   audio_metrics, audio_quality_score, transcriptions, report, runs>>

\* ffprobe prints nothing usable and json.loads raises, or a level line does not
\* parse: nothing in evaluate_sample or main catches it.
ExtractionFails ==
    /\ InLoop
    /\ Abort("JSONDecodeError")

\* The local backend has been tried; the cloud backend is next.
AfterLocal(results) ==
    /\ pc' = "cloud"
    /\ transcriptions' = results
    /\ UNCHANGED <<probe_data, local_text, normalized_local,
                   results_file, metadata, error, args, api_key, samples_to_evaluate,
                   existing_report, existing_detailed_results, evaluations, fresh, idx,
                   audio_metrics, audio_quality_score, report, runs>>

LocalSucceeds(w) ==
    /\ pc = "local"
    /\ AfterLocal(Append(transcriptions, [service |-> LOCAL_SERVICE, wer |-> w]))

\* A status other than 200, or an empty text: local_text is "".
LocalReturnsEmpty ==
    /\ pc = "local"
    /\ AfterLocal(transcriptions)

\* requests raises (timeout, connection refused): the except clause catches it.
LocalRaises ==
    /\ pc = "local"
    /\ AfterLocal(transcriptions)

\* return SampleEvaluation(...), and evaluations.append(eval_result) in main
Finalize(results) ==
    /\ evaluations' = Append(evaluations,
          SampleEvaluation(samples_to_evaluate[idx], audio_metrics[1], results,
                           audio_quality_score[1]))
    /\ idx' = idx + 1
    /\ pc' = "loop"
    /\ audio_metrics' = None
    /\ audio_quality_score' = None
    /\ transcriptions' = <<>>
    /\ UNCHANGED <<probe_data, local_text, normalized_local,
                   results_file, metadata, error, args, api_key, samples_to_evaluate,
                   existing_report, existing_detailed_results, fresh, report, runs>>

SkipOpenAI ==
    /\ pc = "cloud"
    /\ ~api_key
    /\ Finalize(transcriptions)

OpenAISucceeds(w) ==
    /\ pc = "cloud"
    /\ api_key
    /\ Finalize(Append(transcriptions, [service |-> OPENAI_SERVICE, wer |-> w]))

\* A status other than 200, or an empty text: openai_text is "".
OpenAIReturnsEmpty ==
    /\ pc = "cloud"
    /\ api_key
    /\ Finalize(transcriptions)

\* requests raises in transcribe_with_openai: no try block is around the call.
OpenAIRaises ==
    /\ pc = "cloud"
    /\ api_key
    /\ Abort("RequestException")

-----------------------------------------------------------------------------
\* main() after the sample loop

\* The code after the loop entered while samples are still to be evaluated.
MergeExisting_Early ==
    /\ pc = "loop"
    /\ fresh' = evaluations
    /\ evaluations' = MergeEvaluations(args, evaluations, existing_detailed_results)
    /\ pc' = "generate"
    /\ UNCHANGED <<probe_data, local_text, normalized_local,
                   results_file, metadata, error, args, api_key, samples_to_evaluate,
                   existing_report, existing_detailed_results, idx, audio_metrics,
                   audio_quality_score, transcriptions, report, runs>>

MergeExisting ==
    /\ pc = "loop"
    /\ idx > Len(samples_to_evaluate)
    /\ args.merge =>
          \A k \in 1..Len(existing_detailed_results) :
              UsableEntry(existing_detailed_results[k])
    /\ fresh' = evaluations
    /\ evaluations' = MergeEvaluations(args, evaluations, existing_detailed_results)
    /\ pc' = "generate"
    /\ UNCHANGED <<probe_data, local_text, normalized_local,
                   results_file, metadata, error, args, api_key, samples_to_evaluate,
                   existing_report, existing_detailed_results, idx, audio_metrics,
                   audio_quality_score, transcriptions, report, runs>>

GenerateReport ==
    /\ pc = "generate"
    /\ ~ReportRaises(evaluations)
    /\ report' = Some(generate_report(evaluations, api_key))
    /\ pc' = "save"
    /\ UNCHANGED <<probe_data, local_text, normalized_local,
                   results_file, metadata, error, args, api_key, samples_to_evaluate,
                   existing_report, existing_detailed_results, evaluations, fresh, idx,
                   audio_metrics, audio_quality_score, transcriptions, runs>>

GenerateReportRaises ==
    /\ pc = "generate"
    /\ ReportRaises(evaluations)
    /\ Abort("ZeroDivisionError")

\* json.dump(report, f) into RESULTS_FILE
SaveResults ==
    /\ pc = "save"
    /\ results_file' = report
    /\ pc' = "done"
    /\ UNCHANGED <<probe_data, local_text, normalized_local,
                   metadata, error, args, api_key, samples_to_evaluate,
                   existing_report, existing_detailed_results, evaluations, fresh, idx,
                   audio_metrics, audio_quality_score, transcriptions, report, runs>>

\* The process ends, normally or with the exception.
Exit ==
    /\ pc \in {"done", "aborted"}
    /\ pc' = "idle"
    /\ error' = ""
    /\ args' = NoArgs
    /\ api_key' = FALSE
    /\ samples_to_evaluate' = <<>>
    /\ existing_report' = None
    /\ existing_detailed_results' = <<>>
    /\ evaluations' = <<>>
    /\ fresh' = <<>>
    /\ idx' = 0
    /\ audio_metrics' = None
    /\ audio_quality_score' = None
    /\ transcriptions' = <<>>
    /\ report' = None
    /\ UNCHANGED <<probe_data, local_text, normalized_local,
                   results_file, metadata, runs>>

Next ==
    \/ \E a \in CommandLines, key \in BOOLEAN : StartRun(a, key)
    \/ SkipMissingFile
    \/ \E probe \in ProbeResults : AnalyzeMetrics(probe)
    \/ ExtractionFails
    \/ \E w \in LocalWerValues : LocalSucceeds(w)
    \/ LocalReturnsEmpty
    \/ LocalRaises
    \/ SkipOpenAI
    \/ \E w \in OpenAIWerValues : OpenAISucceeds(w)
    \/ OpenAIReturnsEmpty
    \/ OpenAIRaises
    \/ MergeExisting
    \/ GenerateReport
    \/ GenerateReportRaises
    \/ SaveResults
    \/ Exit

Spec == Init /\ [][Next]_vars

-----------------------------------------------------------------------------
\* One more run of main() over a results file that this program or anything
\* else left behind, and over a metadata file that may not load

\* A report of an earlier run, of sample 1 alone.
PriorReport ==
    LET probe == CHOOSE p \in ProbeResults : p.noise_floor = -570
        metrics == analyze_audio_metrics(probe)
        sample == [id |-> 1, microphone |-> [category |-> Some("usb")]]
    IN  generate_report(
            << SampleEvaluation(sample, metrics,
                                <<[service |-> LOCAL_SERVICE, wer |-> 12504]>>,
                                calculate_audio_quality_score(metrics)) >>,
            FALSE)

\* RESULTS_FILE before the run: absent, not JSON, a JSON object without
\* "detailed_results", one whose entry lacks the keys of an evaluation, and a
\* report.
PriorFiles ==
    { None,
      Some(InvalidJson),
      Some([summary |-> [total_samples |-> 1]]),
      Some([detailed_results |-> <<[sample_id |-> 1]>>]),
      Some(PriorReport) }

InitLoad ==
    /\ results_file \in PriorFiles
    /\ metadata \in MetadataChoices
    /\ runs = MaxRuns - 1
    /\ NotRunning

\* main() ends with the exception before the sample loop is reached.
StartFails(a, key, exception) ==
    /\ pc = "idle"
    /\ runs < MaxRuns
    /\ runs' = runs + 1
    /\ args' = a
    /\ api_key' = key
    /\ pc' = "aborted"
    /\ error' = exception
    /\ UNCHANGED <<results_file, metadata, samples_to_evaluate, existing_report,
                   existing_detailed_results, evaluations, fresh, idx, audio_metrics,
                   audio_quality_score, transcriptions, report,
                   probe_data, local_text, normalized_local>>

\* open(METADATA_FILE) or json.load(f) of it raises.
MetadataLoadFails(a, key) ==
    /\ pc = "idle"
    /\ StartFails(a, key, "FileNotFoundError")

\* json.load(f) of the results file raises.
LoadExistingFails(a, key) ==
    /\ ~LoadsExisting(a)
    /\ StartFails(a, key, "JSONDecodeError")

\* result["audio_metrics"] or another key of a persisted entry is missing.
MergeExistingRaises ==
    /\ pc = "loop"
    /\ idx > Len(samples_to_evaluate)
    /\ args.merge
    /\ \E k \in 1..Len(existing_detailed_results) :
           ~UsableEntry(existing_detailed_results[k])
    /\ Abort("KeyError")

NextLoad ==
    \/ Next
    \/ \E a \in CommandLines, key \in BOOLEAN : MetadataLoadFails(a, key)
    \/ \E a \in CommandLines, key \in BOOLEAN : LoadExistingFails(a, key)
    \/ MergeExistingRaises

SpecLoad == InitLoad /\ [][NextLoad]_vars

-----------------------------------------------------------------------------
\* generate_report on its own: the caller appends any evaluations, at most
\* MaxEvals of them and in any order, as runs of main() over some metadata and
\* persisted report do, and hands the list to generate_report.

MaxEvals == 2

ReportCategories == {None, Some("usb"), Some("unknown")}

ReportTranscriptions ==
    { l \o c : l \in {<<>>} \cup { <<[service |-> LOCAL_SERVICE, wer |-> w]>> : w \in {0, 12504} },
               c \in {<<>>} \cup { <<[service |-> OPENAI_SERVICE, wer |-> w]>> : w \in {0, 8333} } }

ReportEvaluations ==
    { SampleEvaluation([id |-> i, microphone |-> [category |-> c]],
                       analyze_audio_metrics(p), t,
                       calculate_audio_quality_score(analyze_audio_metrics(p))) :
        i \in Ids, c \in ReportCategories, p \in ProbeResults, t \in ReportTranscriptions }

InitReport ==
    /\ results_file = None
    /\ metadata = <<>>
    /\ runs = 1
    /\ pc = "collect"
    /\ error = ""
    /\ args = NoArgs
    /\ api_key \in BOOLEAN
    /\ samples_to_evaluate = <<>>
    /\ existing_report = None
    /\ existing_detailed_results = <<>>
    /\ evaluations = <<>>
    /\ fresh = <<>>
    /\ idx = 1
    /\ audio_metrics = None
    /\ audio_quality_score = None
    /\ transcriptions = <<>>
    /\ report = None
    /\ probe_data = None
    /\ local_text = <<>>
    /\ normalized_local = None

\* evaluations.append(...)
CollectEvaluation(e) ==
    /\ pc = "collect"
    /\ Len(evaluations) < MaxEvals
    /\ evaluations' = Append(evaluations, e)
    /\ UNCHANGED <<probe_data, local_text, normalized_local,
                   results_file, metadata, pc, error, args, api_key, samples_to_evaluate,
                   existing_report, existing_detailed_results, fresh, idx, audio_metrics,
                   audio_quality_score, transcriptions, report, runs>>

\* report = generate_report(evaluations, reference_text) is reached.
CallGenerateReport ==
    /\ pc = "collect"
    /\ pc' = "generate"
    /\ UNCHANGED <<probe_data, local_text, normalized_local,
                   results_file, metadata, error, args, api_key, samples_to_evaluate,
                   existing_report, existing_detailed_results, evaluations, fresh, idx,
                   audio_metrics, audio_quality_score, transcriptions, report, runs>>

NextReport ==
    \/ \E e \in ReportEvaluations : CollectEvaluation(e)
    \/ CallGenerateReport
    \/ GenerateReport
    \/ GenerateReportRaises

SpecReport == InitReport /\ [][NextReport]_vars

-----------------------------------------------------------------------------
\* calculate_audio_quality_score on its own: any valid AudioMetrics.

ValidAudioMetrics ==
    [ sample_rate : {16000, 22050, 44100, 48000},
      bit_depth : {None, Some(8), Some(16), Some(24)},
      peak_amplitude_db : {-10},
      rms_level_db : {-310, -300, -250, -200, -150, -100, -80, -60, -50},
      estimated_snr_db : {None, Some(-50), Some(0), Some(50), Some(100), Some(200),
                          Some(300), Some(400), Some(420)},
      dynamic_range_db : {0, 150, 200, 300, 450, 600, 700, 800, 810},
      silence_ratio : {60},
      clipping_ratio : {0, 1, 1500, 3000} ]

InitScore ==
    /\ results_file = None
    /\ metadata = <<>>
    /\ runs = 1
    /\ pc = "score"
    /\ error = ""
    /\ args = NoArgs
    /\ api_key = FALSE
    /\ samples_to_evaluate = <<>>
    /\ existing_report = None
    /\ existing_detailed_results = <<>>
    /\ evaluations = <<>>
    /\ fresh = <<>>
    /\ idx = 1
    /\ audio_metrics \in { Some(m) : m \in ValidAudioMetrics }
    /\ audio_quality_score = None
    /\ transcriptions = <<>>
    /\ report = None
    /\ probe_data = None
    /\ local_text = <<>>
    /\ normalized_local = None

CalculateScore ==
    /\ pc = "score"
    /\ audio_quality_score' = Some(calculate_audio_quality_score(audio_metrics[1]))
    /\ pc' = "scored"
    /\ UNCHANGED <<probe_data, local_text, normalized_local,
                   results_file, metadata, error, args, api_key, samples_to_evaluate,
                   existing_report, existing_detailed_results, evaluations, fresh, idx,
                   audio_metrics, transcriptions, report, runs>>

NextScore == CalculateScore

SpecScore == InitScore /\ [][NextScore]_vars

-----------------------------------------------------------------------------
\* normalize_text on its own, over the texts of at most MaxLen characters

MaxLen == 3

\* One character of each kind a transcript holds: a lowercase letter, an
\* uppercase letter, a digit, the underscore, a punctuation mark, and two
\* whitespace characters.
Chars == {"a", "B", "1", "_", ",", " ", "\n"}

Texts == UNION { [1..n -> Chars] : n \in 0..MaxLen }

\* str.lower() on one character
Lower(c) == IF c = "B" THEN "b" ELSE c

\* The classes \s and \w of re for a str pattern.
IsSpace(c) == c \in {" ", "\n"}
IsWord(c) == c \in {"a", "b", "B", "1", "_"}

\* str.split() without arguments: the runs of non-whitespace characters.
RECURSIVE split(_)
split(s) ==
    IF s = <<>> THEN <<>>
    ELSE IF IsSpace(Head(s)) THEN split(Tail(s))
    ELSE LET ends == { i \in 1..(Len(s) + 1) : i = Len(s) + 1 \/ IsSpace(s[i]) }
             k == CHOOSE i \in ends : \A j \in ends : i <= j
         IN  <<SubSeq(s, 1, k - 1)>> \o split(SubSeq(s, k, Len(s)))

\* " ".join(words)
RECURSIVE join(_)
join(words) ==
    IF words = <<>> THEN <<>>
    ELSE IF Len(words) = 1 THEN words[1]
    ELSE words[1] \o <<" ">> \o join(Tail(words))

normalize_text(text) ==
    LET lowered == [i \in 1..Len(text) |-> Lower(text[i])]
        kept == SelectSeq(lowered, LAMBDA c : IsWord(c) \/ IsSpace(c))
    IN  join(split(kept))

InitNormalize ==
    /\ results_file = None
    /\ metadata = <<>>
    /\ runs = 1
    /\ pc = "normalize"
    /\ error = ""
    /\ args = NoArgs
    /\ api_key = FALSE
    /\ samples_to_evaluate = <<>>
    /\ existing_report = None
    /\ existing_detailed_results = <<>>
    /\ evaluations = <<>>
    /\ fresh = <<>>
    /\ idx = 1
    /\ audio_metrics = None
    /\ audio_quality_score = None
    /\ transcriptions = <<>>
    /\ report = None
    /\ probe_data = None
    /\ local_text \in Texts
    /\ normalized_local = None

\* normalized_local = normalize_text(local_text)
NormalizeText ==
    /\ pc = "normalize"
    /\ normalized_local' = Some(normalize_text(local_text))
    /\ pc' = "normalized"
    /\ UNCHANGED <<results_file, metadata, error, args, api_key, samples_to_evaluate,
                   existing_report, existing_detailed_results, evaluations, fresh, idx,
                   audio_metrics, audio_quality_score, transcriptions, report, runs,
                   probe_data, local_text>>

NextNormalize == NormalizeText

SpecNormalize == InitNormalize /\ [][NextNormalize]_vars

-----------------------------------------------------------------------------
\* analyze_audio_metrics with estimate_noise_floor, over what ffprobe and
\* ffmpeg may report: at most MaxRms RMS_level lines, or ten of them

MaxRms == 2

\* The values of the RMS_level lines of a file, in tenths of a dB: a window
\* below -100 dB, a quiet one, a louder one and a full-scale one.
RmsLevels == {-1200, -570, 0}

RmsOutputs ==
    UNION { [1..n -> RmsLevels] : n \in 0..MaxRms }
    \cup { [i \in 1..10 |-> IF i = k THEN -570 ELSE v] : k \in 1..10, v \in {-400, 0} }

estimate_noise_floor(rms_lines) ==
    LET rms_values == SelectSeq(rms_lines, LAMBDA val : val > -1000)
        ordered == Sorted(rms_values, rms_values, FALSE)
        at == Max(0, Len(rms_values) \div 10)
    IN  IF rms_values # <<>> THEN ordered[at + 1] ELSE -600

ProbeData ==
    [ audio_stream : { None,
                       Some([sample_rate |-> 48000, bits_per_sample |-> Some(24)]),
                       Some([sample_rate |-> 44100, bits_per_sample |-> Some(0)]) },
      levels : [ peak_db : {None, Some(-10), Some(0)}, mean_db : {None, Some(-150)} ],
      rms_lines : RmsOutputs ]

InitMetrics ==
    /\ results_file = None
    /\ metadata = <<>>
    /\ runs = 1
    /\ pc = "probe"
    /\ error = ""
    /\ args = NoArgs
    /\ api_key = FALSE
    /\ samples_to_evaluate = <<>>
    /\ existing_report = None
    /\ existing_detailed_results = <<>>
    /\ evaluations = <<>>
    /\ fresh = <<>>
    /\ idx = 1
    /\ audio_metrics = None
    /\ audio_quality_score = None
    /\ transcriptions = <<>>
    /\ report = None
    /\ probe_data \in { Some(d) : d \in ProbeData }
    /\ local_text = <<>>
    /\ normalized_local = None

\* metrics = analyze_audio_metrics(filepath)
AnalyzeProbe ==
    /\ pc = "probe"
    /\ audio_metrics' = Some(analyze_audio_metrics(
          [ audio_stream |-> probe_data[1].audio_stream,
            levels |-> probe_data[1].levels,
            noise_floor |-> estimate_noise_floor(probe_data[1].rms_lines) ]))
    /\ pc' = "analyzed"
    /\ UNCHANGED <<results_file, metadata, error, args, api_key, samples_to_evaluate,
                   existing_report, existing_detailed_results, evaluations, fresh, idx,
                   audio_quality_score, transcriptions, report, runs,
                   probe_data, local_text, normalized_local>>

NextMetrics == AnalyzeProbe

SpecMetrics == InitMetrics /\ [][NextMetrics]_vars

-----------------------------------------------------------------------------
\* Properties

EntriesFor(results, id) == SelectSeq(results, LAMBDA r : r.sample_id = id)

Count(s, Test(_)) == Len(SelectSeq(s, Test))

DistinctIds(evals) ==
    \A i, j \in 1..Len(evals) : i # j => evals[i].sample_id # evals[j].sample_id

\* The persisted report with the entries of the ids in T taken out.
WithoutIds(rep, T) ==
    [rep EXCEPT !.detailed_results = SelectSeq(@, LAMBDA r : r.sample_id \notin T)]

MergedSubsetRun ==
    /\ pc = "done"
    /\ args.merge
    /\ args.samples # None
    /\ existing_report # None

\* C1: a merge run with a target subset T has written a report in which every
\* prior entry of an id outside T is unchanged field for field, the entries of
\* an id in T are those computed in this run, and which is the report the run
\* would have written had the prior report held no entry for the ids in T.
C1_MergeSubsetKeepsOthers ==
    MergedSubsetRun =>
        LET T == args.samples[1]
            new == results_file[1].detailed_results
            prior == existing_report[1].detailed_results
            mine(id) == EntriesFor(fresh, id)
        IN  /\ \A id \in Ids \ T : EntriesFor(new, id) = EntriesFor(prior, id)
            /\ \A id \in T :
                  EntriesFor(new, id) = [i \in 1..Len(mine(id)) |-> DetailedResult(mine(id)[i])]
            /\ results_file[1] =
                  generate_report(
                      MergeEvaluations(args, fresh,
                          ExistingDetailedResults(args,
                              Some(WithoutIds(existing_report[1], T)))),
                      api_key)

\* A merge run with T = {2} over a prior report holding samples 1 and 2 has
\* re-evaluated sample 2 to an entry that differs from the prior one.
C1_Witness ==
    /\ MergedSubsetRun
    /\ args.samples = Some({2})
    /\ EntriesFor(existing_report[1].detailed_results, 1) # <<>>
    /\ EntriesFor(existing_report[1].detailed_results, 2) # <<>>
    /\ Len(fresh) = 1
    /\ EntriesFor(results_file[1].detailed_results, 2)
          # EntriesFor(existing_report[1].detailed_results, 2)

\* C2: after the merge of any merge-mode run the evaluations handed to report
\* generation hold each sample_id at most once, and the entry of an id evaluated
\* in this run is the fresh evaluation.
C2_MergeIsKeyedUnion ==
    (args.merge /\ pc \in {"generate", "save", "done"}) =>
        /\ DistinctIds(evaluations)
        /\ \A i \in 1..Len(fresh) :
              EntriesFor(evaluations, fresh[i].sample_id) = <<fresh[i]>>

\* C3: no run is ended by a failure of the audio-metric extraction of a sample:
\* the sample is left out and the run goes on to the report.
C3_ExtractionFailureSkipsSample ==
    ~(pc = "aborted" /\ error = "JSONDecodeError")

\* C4: no run is ended by a failure of a transcription backend: the result is
\* left out and the sample and the samples after it are still evaluated.
C4_BackendFailureIsSoft ==
    ~(pc = "aborted" /\ error = "RequestException")

\* C5: the score of every valid AudioMetrics lies in [0, 100].
C5_ScoreInRange ==
    audio_quality_score # None =>
        0 <= audio_quality_score[1] /\ audio_quality_score[1] <= 100000

\* The score of a fully clipped recording with no bit depth and no SNR.
C5_Witness ==
    /\ pc = "scored"
    /\ audio_metrics[1].clipping_ratio = 3000
    /\ audio_metrics[1].bit_depth = None
    /\ audio_metrics[1].estimated_snr_db = None
    /\ audio_quality_score = Some(33000)

\* The scoring table of the specification: the credit for an unknown value goes
\* to an absent field only, a present value is scored by its band.
TableScore(metrics) ==
    SampleRateScore(metrics)
    + (IF metrics.bit_depth = None THEN 6000
       ELSE IF metrics.bit_depth[1] >= 24 THEN 10000
       ELSE IF metrics.bit_depth[1] >= 16 THEN 8000 ELSE 5000)
    + (IF metrics.estimated_snr_db = None THEN 12000
       ELSE IF metrics.estimated_snr_db[1] >= 400 THEN 25000
       ELSE IF metrics.estimated_snr_db[1] >= 300 THEN 20000
       ELSE IF metrics.estimated_snr_db[1] >= 200 THEN 15000
       ELSE IF metrics.estimated_snr_db[1] >= 100 THEN 10000 ELSE 5000)
    + RmsScore(metrics) + ClippingScore(metrics) + DynamicRangeScore(metrics)

\* C6: the score is the sum of the six sub-scores of the table, the unknown
\* credit given exactly when the field is absent; the example scores 100.
C6_ScoreMatchesTable ==
    audio_quality_score # None =>
        /\ audio_quality_score[1] = TableScore(audio_metrics[1])
        /\ ( /\ audio_metrics[1].sample_rate = 48000
             /\ audio_metrics[1].bit_depth = Some(24)
             /\ audio_metrics[1].estimated_snr_db = Some(420)
             /\ audio_metrics[1].rms_level_db = -150
             /\ audio_metrics[1].clipping_ratio = 0
             /\ audio_metrics[1].dynamic_range_db = 450 )
           => audio_quality_score[1] = 100000

\* C7: by_audio_quality is in non-increasing score, its ranks are the 1-based
\* positions, and of two samples with equal score the lower sample_id is first.
C7_QualityRankingTiesById ==
    report # None =>
        LET r == report[1].rankings["by_audio_quality"]
        IN  /\ \A i \in 1..Len(r) : r[i].rank = i
            /\ \A i, j \in 1..Len(r) : i < j =>
                  /\ r[i].score >= r[j].score
                  /\ r[i].score = r[j].score => r[i].sample_id <= r[j].sample_id

\* The ranking section of a backend, empty when the report has none.
Section(rep, key) == IF key \in DOMAIN rep.rankings THEN rep.rankings[key] ELSE <<>>

\* Every wer_percent a ranking of these evaluations can show.
WerPercentsOf(evals) ==
    UNION { { WerPercent(evals[i].transcriptions[k].wer) :
                k \in 1..Len(evals[i].transcriptions) } : i \in 1..Len(evals) }

WerRankingRight(rep, evals, service, key) ==
    LET r == Section(rep, key)
    IN  /\ \A i \in 1..Len(r) : r[i].rank = i
        /\ \A i, j \in 1..Len(r) : i < j => r[i].wer_percent <= r[j].wer_percent
        /\ \A id \in Ids, w \in { r[i].wer_percent : i \in 1..Len(r) }
                                     \cup WerPercentsOf(evals) :
              Count(r, LAMBDA x : x.sample_id = id /\ x.wer_percent = w)
                = Count(evals, LAMBDA e : /\ e.sample_id = id
                                          /\ HasService(e, service)
                                          /\ WerPercent(WerOf(e, service)) = w)
        /\ Len(r) = Count(evals, LAMBDA e : HasService(e, service))

\* C8: the WER ranking of each backend holds exactly the samples with a result
\* of that backend, in non-decreasing WER, ranked 1..k by position.
C8_WerRankings ==
    report # None =>
        /\ WerRankingRight(report[1], evaluations, LOCAL_SERVICE, "by_local_whisper_wer")
        /\ WerRankingRight(report[1], evaluations, OPENAI_SERVICE, "by_openai_whisper_wer")

\* Two samples given in decreasing order of local WER are ranked in increasing
\* order, and the one of them without a cloud result is not in the cloud ranking.
C8_Witness ==
    /\ report # None
    /\ Len(evaluations) = 2
    /\ Len(report[1].rankings["by_local_whisper_wer"]) = 2
    /\ report[1].rankings["by_local_whisper_wer"][1].wer_percent
          < report[1].rankings["by_local_whisper_wer"][2].wer_percent
    /\ report[1].rankings["by_local_whisper_wer"][1].sample_id = evaluations[2].sample_id
    /\ evaluations[1].sample_id # evaluations[2].sample_id
    /\ Len(Section(report[1], "by_openai_whisper_wer")) = 1
    /\ ~HasService(evaluations[2], OPENAI_SERVICE)

\* C9: the ranking section of a backend, local or cloud, is in the report only
\* if some sample has a result of that backend.
C9_SectionOnlyWithResults ==
    report # None =>
        /\ "by_local_whisper_wer" \in DOMAIN report[1].rankings
              => \E i \in 1..Len(evaluations) : HasService(evaluations[i], LOCAL_SERVICE)
        /\ "by_openai_whisper_wer" \in DOMAIN report[1].rankings
              => \E i \in 1..Len(evaluations) : HasService(evaluations[i], OPENAI_SERVICE)

\* C9 as amended: the cloud section is in the report exactly when some sample
\* has a cloud result; the local section is always in the report, and is empty
\* when no sample has a local result.
C9_CloudSectionOnlyWithResults ==
    report # None =>
        /\ "by_openai_whisper_wer" \in DOMAIN report[1].rankings
              <=> \E i \in 1..Len(evaluations) : HasService(evaluations[i], OPENAI_SERVICE)
        /\ "by_local_whisper_wer" \in DOMAIN report[1].rankings
        /\ (\A i \in 1..Len(evaluations) : ~HasService(evaluations[i], LOCAL_SERVICE))
              => report[1].rankings["by_local_whisper_wer"] = <<>>

\* A report of samples none of which has a result of either backend.
C9_Witness ==
    /\ report # None
    /\ evaluations # <<>>
    /\ \A i \in 1..Len(evaluations) : evaluations[i].transcriptions = <<>>
    /\ "by_openai_whisper_wer" \notin DOMAIN report[1].rankings
    /\ report[1].rankings["by_local_whisper_wer"] = <<>>

\* C10: report generation never fails, and every evaluation, also one with no
\* transcription, is once in by_audio_quality and once, at its input position,
\* in detailed_results.
C10_EverySampleReported ==
    /\ ~(pc = "aborted" /\ error = "ZeroDivisionError")
    /\ report # None =>
          LET q == report[1].rankings["by_audio_quality"]
              d == report[1].detailed_results
          IN  /\ Len(q) = Len(evaluations)
              /\ \A id \in Ids :
                    Count(q, LAMBDA x : x.sample_id = id)
                      = Count(evaluations, LAMBDA e : e.sample_id = id)
              /\ Len(d) = Len(evaluations)
              /\ \A i \in 1..Len(d) : d[i] = DetailedResult(evaluations[i])

\* The evaluations grouped under a key of category_analysis: those whose
\* sample_id the first loop appended to the group's samples.
GroupOf(evals, cat) == SelectSeq(evals, LAMBDA e : MicGet(e.microphone, "unknown") = cat)

\* Two means, each kept as sum / count, are the same number.
SameMean(a, b) ==
    /\ a.count > 0
    /\ b.count > 0
    /\ a.sum * b.count = b.sum * a.count

\* C11: report generation never fails, and avg_wer of every category group is
\* the mean of the local backend's WER over the samples of the group that have
\* a local result, and None when no sample of the group has one.
C11_AvgWerOverGroup ==
    /\ ~(pc = "aborted" /\ error = "ZeroDivisionError")
    /\ report # None =>
          \A k \in 1..Len(report[1].category_analysis) :
              LET entry == report[1].category_analysis[k]
                  with == SelectSeq(GroupOf(evaluations, entry.category),
                                    LAMBDA e : HasService(e, LOCAL_SERVICE))
              IN  IF with = <<>> THEN entry.avg_wer = None
                  ELSE /\ entry.avg_wer # None
                       /\ SameMean(entry.avg_wer[1],
                              [ sum |-> SeqSum([i \in 1..Len(with) |->
                                                   WerOf(with[i], LOCAL_SERVICE)]),
                                count |-> Len(with) ])

\* C17: report generation never fails, and avg_quality of every category group,
\* the fallback group of samples without a category included, is the mean of
\* audio_quality_score over the samples listed in the group.
C17_AvgQualityOverGroup ==
    /\ ~(pc = "aborted" /\ error = "ZeroDivisionError")
    /\ report # None =>
          \A k \in 1..Len(report[1].category_analysis) :
              LET entry == report[1].category_analysis[k]
                  group == GroupOf(evaluations, entry.category)
              IN  /\ entry.samples = [i \in 1..Len(group) |-> group[i].sample_id]
                  /\ SameMean(entry.avg_quality,
                         [ sum |-> SeqSum([i \in 1..Len(group) |->
                                              group[i].audio_quality_score]),
                           count |-> Len(group) ])

\* The list is in ascending order of sample_id.
SortedById(evals) ==
    \A i, j \in 1..Len(evals) : i < j => evals[i].sample_id <= evals[j].sample_id

\* C13: in a run with --merge, the evaluations handed to generate_report, and
\* kept until the report is saved, are sorted by sample_id ascending, whatever
\* the order of the metadata and whether or not prior entries are merged in.
C13_MergeRunSortedById ==
    (args.merge /\ pc \in {"generate", "save", "done"}) => SortedById(evaluations)

\* Every reordering of a list.
Orderings(evals) ==
    LET n == Len(evals)
        perms == { f \in [1..n -> 1..n] : \A i, j \in 1..n : f[i] = f[j] => i = j }
    IN  { [i \in 1..n |-> evals[f[i]]] : f \in perms }

\* The contents of category_analysis without the order of its keys and of the
\* ids listed under a key.
CategoryContents(rep) ==
    { [ category    |-> rep.category_analysis[k].category,
        samples     |-> { rep.category_analysis[k].samples[i] :
                            i \in 1..Len(rep.category_analysis[k].samples) },
        avg_quality |-> rep.category_analysis[k].avg_quality,
        avg_wer     |-> rep.category_analysis[k].avg_wer ] :
      k \in 1..Len(rep.category_analysis) }

\* C14: generate_report gives the same rankings, tied entries in the same
\* order, and the same category_analysis contents for every ordering of a set
\* of evaluations of distinct samples.
C14_ReportIndependentOfOrder ==
    (report # None /\ DistinctIds(evaluations)) =>
        \A other \in Orderings(evaluations) :
            /\ ~ReportRaises(other)
            /\ generate_report(other, api_key).rankings = report[1].rankings
            /\ CategoryContents(generate_report(other, api_key)) = CategoryContents(report[1])

\* C16: a sample's local attempt follows its metrics extraction, its cloud
\* attempt follows the local attempt and is made only with an API key, the
\* sample is finalized from the cloud step, and the code after the loop is
\* entered only when every targeted sample has been finalized or skipped.
C16_StepOrder ==
    [][ /\ (pc' = "local") =>
              /\ InLoop
              /\ audio_metrics' # None /\ audio_quality_score' # None
              /\ transcriptions' = <<>>
        /\ (pc' = "cloud") =>
              /\ pc = "local"
              /\ audio_metrics # None
              /\ \A k \in 1..Len(transcriptions') :
                     transcriptions'[k].service = LOCAL_SERVICE
        /\ (pc = "cloud") =>
              \/ /\ pc' = "loop"
                 /\ idx' = idx + 1
                 /\ Len(evaluations') = Len(evaluations) + 1
                 /\ evaluations'[Len(evaluations')].sample_id = samples_to_evaluate[idx].id
                 /\ HasService(evaluations'[Len(evaluations')], OPENAI_SERVICE) => api_key
              \/ /\ pc' = "aborted"
                 /\ api_key
        /\ (pc = "loop" /\ pc' = "loop") =>
              /\ idx' = idx + 1
              /\ evaluations' = evaluations
        /\ (pc' = "generate") =>
              /\ pc = "loop"
              /\ idx > Len(samples_to_evaluate)
              /\ Len(fresh') <= Len(samples_to_evaluate)
      ]_vars

\* Two samples were targeted: one was skipped and the other went through both
\* backends before the report is generated.
C16_Witness ==
    /\ pc = "generate"
    /\ api_key
    /\ Len(samples_to_evaluate) = 2
    /\ Len(fresh) = 1
    /\ HasService(fresh[1], LOCAL_SERVICE)
    /\ HasService(fresh[1], OPENAI_SERVICE)

\* The text holds lowercase letters and digits only, in words separated by
\* single spaces, with no whitespace at either end.
IsAlnum(c) == c \in {"a", "b", "1"}

CleanText(t) ==
    /\ \A i \in 1..Len(t) : IsAlnum(t[i]) \/ t[i] = " "
    /\ t # <<>> => (t[1] # " " /\ t[Len(t)] # " ")
    /\ \A i \in 1..(Len(t) - 1) : ~(t[i] = " " /\ t[i + 1] = " ")

\* The words of letters and digits of a text, case aside: what two texts that
\* differ only in case, punctuation and whitespace runs have in common.
AlnumWords(t) ==
    split(SelectSeq([i \in 1..Len(t) |-> Lower(t[i])],
                    LAMBDA c : IsAlnum(c) \/ IsSpace(c)))

\* C15: normalize_text is idempotent, its result holds only lowercase letters
\* and digits separated by single spaces with no whitespace at the ends, and
\* texts that differ only in case, punctuation or whitespace runs have the
\* same result.
C15_NormalizeText ==
    normalized_local # None =>
        /\ normalize_text(normalized_local[1]) = normalized_local[1]
        /\ CleanText(normalized_local[1])
        /\ \A other \in Texts :
               AlnumWords(other) = AlnumWords(local_text)
                   => normalize_text(other) = normalized_local[1]

\* C18: estimate_noise_floor always returns an estimate, and with it the
\* estimated SNR is the mean level minus the noise floor and the dynamic range
\* is |peak - noise floor|, whatever the estimate is, -60 dB and 0 dB included.
C18_SnrAndRangeFromNoiseFloor ==
    audio_metrics # None =>
        LET noise_floor == estimate_noise_floor(probe_data[1].rms_lines)
            metrics == audio_metrics[1]
        IN  /\ metrics.estimated_snr_db = Some(metrics.rms_level_db - noise_floor)
            /\ metrics.dynamic_range_db = Abs(metrics.peak_amplitude_db - noise_floor)

\* C12: a run with --merge over a results file that is not JSON, that has no
\* "detailed_results", or whose entries to keep cannot be rebuilt ends with an
\* exception: it does not reach report generation or the write of the file.
C12_UnusablePriorReportFails ==
    (pc # "idle" /\ args.merge) =>
        /\ results_file = Some(InvalidJson) => pc = "aborted"
        /\ ( /\ existing_report # None
             /\ \/ "detailed_results" \notin DOMAIN existing_report[1]
                \/ \E k \in 1..Len(existing_detailed_results) :
                       ~UsableEntry(existing_detailed_results[k]) )
           => pc \notin {"generate", "save", "done"}

\* C19: the results file changes only in the step that writes the report
\* generated after the sample loop has gone through every targeted sample; a
\* step that ends the run with an exception, and the end of the process, leave
\* the file as it was.
C19_FileWrittenOnlyAfterReport ==
    [][ /\ (results_file' # results_file) =>
              /\ pc = "save" /\ pc' = "done"
              /\ report # None
              /\ results_file' = report
              /\ idx > Len(samples_to_evaluate)
              /\ Len(report[1].detailed_results) = Len(evaluations)
        /\ (pc' = "aborted" \/ pc = "aborted") => results_file' = results_file
      ]_vars

\* Report generation raised in a run that found a report of an earlier run,
\* and the file still holds that report.
C19_Witness ==
    /\ pc = "aborted"
    /\ error = "ZeroDivisionError"
    /\ results_file = Some(PriorReport)

====
